---- MODULE Spec2Model ----
(***************************************************************************)
(* Ant-colony TSP demo (src/script.js): the ACO model state, the handlers  *)
(* that edit it, the animation loop that drives runIteration, and          *)
(* runIteration itself, stepped through its phases.                        *)
(*                                                                         *)
(* Conventions of the model                                                *)
(*  - JavaScript runs each handler to completion, so a handler's steps are *)
(*    taken with pc # "idle" and no other handler starts until pc returns  *)
(*    to "idle".                                                           *)
(*  - City indices are 1-based here (JS index i is i+1).                   *)
(*  - Real numbers are held in fixed point: pheromone levels in units of   *)
(*    1/One, with products and quotients rounded toward zero.              *)
(*  - null is 0 for animId and the empty sequence for bestTour.            *)
(***************************************************************************)
EXTENDS Integers, Sequences, FiniteSets, TLC

(* ------------------------------ bounds --------------------------------- *)
\* number of cities randomizeCities seeds (the code passes 12)
RandomN == 2
\* clicks add cities only below this count
MaxCities == 3
\* largest value of the ants slider
MaxAnts == 1
\* iterations run while iter is below this
MaxIter == 2
\* Start is not clicked when this many animation frames are already pending
MaxPending == 2

(* ------------------------- numeric representation ---------------------- *)
\* 1.0 in fixed point (pheromone initial level, src line 110)
One == 1000
\* 1 / 1e-6, the epsilon of lines 144 and 169
EpsInv == 1000000
\* tau is held in units of 1e-6: one pheromone unit (1/One) is 1000 of them
TauPerPher == 1000
\* pher[key] || 0.0001 (line 143), in units of 1e-6
TauDefault == 100
\* Math.max(.., 1e-6) (line 143), in units of 1e-6
TauMin == 1
\* Infinity (line 82): larger than every tour length of the model
Infinity == 2147483647
\* click radius of line 271
ClickRadius == 10

\* canvas positions cities are placed at: the corners of a 30-40-50 triangle,
\* whose pairwise distances are whole numbers
Points == {<<0, 0>>, <<30, 0>>, <<0, 40>>}

AlphaValues == {1}
BetaValues == {1}
\* rho slider, in percent
RhoValues == {0, 50, 100}
AntsValues == 0..MaxAnts

Max(a, b) == IF a >= b THEN a ELSE b

Abs(x) == IF x < 0 THEN -x ELSE x

\* Math.hypot(dx, dy): the whole part of the root, exact on the distances of Points
Hypot(dx, dy) ==
  CHOOSE r \in 0..(Abs(dx) + Abs(dy)) :
    r * r <= dx * dx + dy * dy /\ (r + 1) * (r + 1) > dx * dx + dy * dy

\* distance(a, b), line 116
distance(a, b) == Hypot(a[1] - b[1], a[2] - b[2])

\* 1 / (x + 1e-6) in units of 1/One (lines 144 and 169)
Recip(x) == (One * EpsInv) \div (x * EpsInv + 1)

RECURSIVE Pow(_, _)
\* Math.pow(x, e) for a whole exponent
Pow(x, e) == IF e = 0 THEN 1 ELSE x * Pow(x, e - 1)

(* ------------------------------ edge keys ------------------------------ *)
\* a mutant of edgeKey: the key keeps the direction of travel
edgeKeyDirected(a, b) == <<a, b>>

\* edgeKey(a, b), line 115: the canonical (min, max) key
edgeKey(a, b) == IF a < b THEN <<a, b>> ELSE <<b, a>>

\* pher = {}
EmptyPher == [k \in {} |-> 0]

\* pher[k] || 0 : an absent key reads as undefined, which is falsy
Lookup(p, k) == IF k \in DOMAIN p THEN p[k] ELSE 0

\* initPheromones, lines 106-113, for n cities
initPheromones(n) ==
  [k \in UNION {{edgeKey(i, j) : j \in (i + 1)..n} : i \in 1..n} |-> One]

(* ------------------------------- state --------------------------------- *)
VARIABLES
  cities,    \* sequence of points
  pher,      \* edge key -> level
  running, iter, bestDist, bestTour,
  animId,    \* last requestAnimationFrame handle, 0 for null
  pending,   \* handles of the animate callbacks the browser has scheduled
  pc,        \* position of the handler that is executing, "idle" between handlers
  params,    \* runIteration's params
  loc,       \* runIteration's locals: k, tours, tourD, a, and the ant's start/visited/tour/cur
  called,    \* whether the animate callback that is executing has called runIteration
  entry,     \* the store and best record as they were when runIteration was entered
  phase      \* counts of the evaporation passes and deposits of the current iteration

vars == <<cities, pher, running, iter, bestDist, bestTour, animId, pending,
          pc, params, loc, called, entry, phase>>

NoParams == [alpha |-> 0, beta |-> 0, rho |-> 0, ants |-> 0]
NoLoc == [k |-> 0, tours |-> <<>>, tourD |-> <<>>, a |-> 0,
          start |-> 0, visited |-> {}, tour |-> <<>>, cur |-> 0]
NoEntry == [pher |-> EmptyPher, bestDist |-> Infinity, bestTour |-> <<>>, iter |-> 0]
NoPhase == [evaps |-> 0, deps |-> 0]

\* sequences of n distinct points: the outcomes of n Math.random() placements
Placements(n) ==
  {s \in [1..n -> Points] : \A i, j \in 1..n : i < j => s[i] # s[j]}

iterationVars == <<params, loc, called, entry, phase>>
modelVars == <<iter, bestDist, bestTour>>
loopVars == <<running, animId, pending>>

\* init, lines 289-300: randomizeCities(12) on the initial globals of lines 80-83
Init ==
  /\ cities \in Placements(RandomN)
  /\ pher = initPheromones(RandomN)
  /\ running = FALSE /\ iter = 0 /\ bestDist = Infinity /\ bestTour = <<>>
  /\ animId = 0 /\ pending = {}
  /\ pc = "idle"
  /\ params = NoParams /\ loc = NoLoc /\ called = FALSE /\ entry = NoEntry /\ phase = NoPhase

(* --------------------------- model handlers ---------------------------- *)
\* a mutant of resetModel: the run is left running
resetModelStillRunning ==
  /\ running' = running
  /\ pending' = pending \ {animId}
  /\ iter' = 0 /\ bestDist' = Infinity /\ bestTour' = <<>>
  /\ pher' = EmptyPher
  /\ UNCHANGED animId

\* resetModel, lines 85-92; cancelAnimationFrame(animId) unschedules that callback
resetModel ==
  /\ running' = FALSE
  /\ pending' = pending \ {animId}
  /\ iter' = 0 /\ bestDist' = Infinity /\ bestTour' = <<>>
  /\ pher' = EmptyPher
  /\ UNCHANGED animId

\* randomizeCities(n), lines 94-104
randomizeCities(n) ==
  /\ cities' \in Placements(n)
  /\ pher' = initPheromones(n)

\* cities.splice(i, 1)
Splice(s, i) == [j \in 1..(Len(s) - 1) |-> IF j < i THEN s[j] ELSE s[j + 1]]

\* the cities within the click radius of p (line 271)
Hit(p) == {i \in 1..Len(cities) : Hypot(cities[i][1] - p[1], cities[i][2] - p[2]) < ClickRadius}

\* the city the loop of lines 269-272 removes: it scans from the last index down
HitLast(p) == CHOOSE i \in Hit(p) : \A j \in Hit(p) : j <= i

\* canvas click handler, lines 264-275
CanvasClick(p) ==
  /\ pc = "idle"
  /\ IF Hit(p) # {}
       THEN cities' = Splice(cities, HitLast(p))
       ELSE /\ Len(cities) < MaxCities
            /\ cities' = Append(cities, p)
  /\ pher' = initPheromones(Len(cities'))
  /\ UNCHANGED <<modelVars, loopVars, pc, iterationVars>>

\* the smallest handle the browser has not handed out and still tracks
FreshId == CHOOSE i \in 1..(MaxPending + 1) :
             /\ i \notin pending /\ i # animId
             /\ \A j \in 1..(MaxPending + 1) : (j \notin pending /\ j # animId) => i <= j

\* startBtn click handler, lines 278-283
StartClick ==
  /\ pc = "idle"
  /\ Cardinality(pending) < MaxPending
  /\ IF Len(cities) >= 2 /\ ~running
       THEN /\ running' = TRUE
            /\ animId' = FreshId
            /\ pending' = pending \cup {FreshId}
       ELSE UNCHANGED loopVars
  /\ UNCHANGED <<cities, pher, modelVars, pc, iterationVars>>

\* pauseBtn click handler, line 284
PauseClick ==
  /\ pc = "idle"
  /\ running' = FALSE
  /\ UNCHANGED <<cities, pher, modelVars, animId, pending, pc, iterationVars>>

\* resetBtn click handler, line 285, first call: resetModel()
ResetClick ==
  /\ pc = "idle"
  /\ resetModel
  /\ pc' = "reset"
  /\ UNCHANGED <<cities, iterationVars>>

\* resetBtn click handler, line 285, second call: randomizeCities(12)
ResetRandomize ==
  /\ pc = "reset"
  /\ randomizeCities(RandomN)
  /\ pc' = "idle"
  /\ UNCHANGED <<modelVars, loopVars, iterationVars>>

\* randomBtn click handler, line 286
RandomClick ==
  /\ pc = "idle"
  /\ randomizeCities(RandomN)
  /\ UNCHANGED <<modelVars, loopVars, pc, iterationVars>>

(* ------------------------------ runIteration --------------------------- *)
n == Len(cities)

\* a mutant of TooFewCities: a single city is let through
TooFewCitiesOffByOne(m) == m < 1

\* the guard of line 120
TooFewCities(m) == m < 2

\* the cities the loop of lines 140-141 keeps, in index order
Candidates(visited) == SelectSeq([j \in 1..n |-> j], LAMBDA j : j \notin visited)

\* tau, line 143, in units of 1e-6
Tau(cur, j) ==
  LET p == Lookup(pher, edgeKey(cur, j))
  IN  Max(IF p = 0 THEN TauDefault ELSE p * TauPerPher, TauMin)

\* eta, line 144
Eta(cur, j) == Recip(distance(cities[cur], cities[j]))

\* val, line 145
Val(cur, j) == Pow(Tau(cur, j), params.alpha) * Pow(Eta(cur, j), params.beta)

\* probs, lines 138-147
Probs(cur, visited) ==
  LET c == Candidates(visited)
  IN  [i \in 1..Len(c) |-> [j |-> c[i], val |-> Val(cur, c[i])]]

RECURSIVE Cum(_, _)
\* the sum of the first i vals of probs; Cum(probs, Len(probs)) is denom
Cum(probs, i) == IF i = 0 THEN 0 ELSE Cum(probs, i - 1) + probs[i].val

\* values of r = Math.random() * denom (line 149), one inside each slot of the wheel
Draws(probs) ==
  {0} \cup {r \in {Cum(probs, i) + 1 : i \in 1..Len(probs)} : r < Cum(probs, Len(probs))}

RECURSIVE RouletteFrom(_, _, _)
\* the loop of lines 151-154, from entry i with remainder r; probs[0].j if it never breaks
RouletteFrom(probs, i, r) ==
  IF i > Len(probs) THEN probs[1].j
  ELSE IF r - probs[i].val <= 0 THEN probs[i].j
  ELSE RouletteFrom(probs, i + 1, r - probs[i].val)

RECURSIVE RoulettePositionFrom(_, _, _)
RoulettePositionFrom(probs, i, r) ==
  IF i > Len(probs) THEN 1
  ELSE IF r - probs[i].val <= 0 THEN i
  ELSE RoulettePositionFrom(probs, i + 1, r - probs[i].val)

\* a mutant of Roulette: the position in probs is taken for the city
RoulettePosition(probs, r) == RoulettePositionFrom(probs, 1, r)

\* chosen, lines 150-154
Roulette(probs, r) == RouletteFrom(probs, 1, r)

RECURSIVE TourLengthFrom(_, _)
\* D, line 159
TourLengthFrom(tour, t) ==
  IF t >= Len(tour) THEN 0
  ELSE distance(cities[tour[t]], cities[tour[t + 1]]) + TourLengthFrom(tour, t + 1)

TourLength(tour) == TourLengthFrom(tour, 1)

\* pher[k] *= (1 - rho) for every stored key, line 164; rho in percent
Evaporated(p, rho) == [k \in DOMAIN p |-> (p[k] * (100 - rho)) \div 100]

\* pher[k] = (pher[k] || 0) + delta, line 172
AddTo(p, k, delta) ==
  [x \in DOMAIN p \cup {k} |-> IF x = k THEN Lookup(p, k) + delta ELSE p[x]]

RECURSIVE DepositFrom(_, _, _, _)
\* the loop of lines 170-173 from position i of tour t
DepositFrom(p, t, i, delta) ==
  IF i >= Len(t) THEN p
  ELSE DepositFrom(AddTo(p, edgeKey(t[i], t[i + 1]), delta), t, i + 1, delta)

\* a mutant of Improves: a tour of equal length replaces the best
ImprovesOrTies(D, best) == D <= best

\* the test of line 174
Improves(D, best) == D < best

\* a mutant of AfterTours: the evaporation pass is skipped
AfterToursDeposit == "deposit"

\* the phase that follows the ant loop: evaporation, lines 163-164
AfterTours == "evaporate"

\* animate, lines 249-257, for the scheduled callback f; due is time - lastTick >= msPerIter.
\* When due it calls runIteration, whose lines 119-129 are taken here.
Animate(f, due) ==
  /\ pc = "idle"
  /\ f \in pending
  /\ pending' = pending \ {f}
  /\ IF ~running
       THEN /\ animId' = 0
            /\ UNCHANGED <<pc, iterationVars>>
       ELSE /\ UNCHANGED animId
            /\ IF ~due
                 THEN pc' = "raf" /\ UNCHANGED iterationVars
                 ELSE /\ called' = TRUE
                      /\ entry' = [pher |-> pher, bestDist |-> bestDist,
                                   bestTour |-> bestTour, iter |-> iter]
                      /\ IF TooFewCities(n)
                           THEN pc' = "raf" /\ UNCHANGED <<params, loc, phase>>
                           ELSE /\ iter < MaxIter
                                /\ \E al \in AlphaValues, be \in BetaValues,
                                      rh \in RhoValues, an \in AntsValues :
                                     params' = [alpha |-> al, beta |-> be, rho |-> rh, ants |-> an]
                                /\ loc' = NoLoc
                                /\ phase' = NoPhase
                                /\ pc' = "ants"
  /\ UNCHANGED <<cities, pher, modelVars, running>>

\* lines 131-135: the next ant picks its start
AntStart ==
  /\ pc = "ants" /\ loc.k < params.ants
  /\ \E start \in 1..n :
       loc' = [loc EXCEPT !.start = start, !.visited = {start},
                          !.tour = <<start>>, !.cur = start]
  /\ pc' = "walk"
  /\ UNCHANGED <<cities, pher, modelVars, loopVars, params, called, entry, phase>>

\* lines 136-156: one pass of the while loop
AntStep ==
  /\ pc = "walk" /\ Cardinality(loc.visited) < n
  /\ LET probs == Probs(loc.cur, loc.visited)
     IN  \E r \in Draws(probs) :
           LET chosen == Roulette(probs, r)
           IN  loc' = [loc EXCEPT !.visited = loc.visited \cup {chosen},
                                  !.tour = Append(loc.tour, chosen),
                                  !.cur = chosen]
  /\ UNCHANGED <<cities, pher, modelVars, loopVars, pc, params, called, entry, phase>>

\* lines 157-160: the tour is closed, measured and stored
AntClose ==
  /\ pc = "walk" /\ Cardinality(loc.visited) >= n
  /\ LET tour == Append(loc.tour, loc.start)
     IN  loc' = [loc EXCEPT !.tours = Append(loc.tours, tour),
                            !.tourD = Append(loc.tourD, TourLength(tour)),
                            !.k = loc.k + 1,
                            !.start = 0, !.visited = {}, !.tour = <<>>, !.cur = 0]
  /\ pc' = "ants"
  /\ UNCHANGED <<cities, pher, modelVars, loopVars, params, called, entry, phase>>

\* line 131: the ant loop ends
AntsDone ==
  /\ pc = "ants" /\ loc.k >= params.ants
  /\ pc' = AfterTours
  /\ UNCHANGED <<cities, pher, modelVars, loopVars, params, loc, called, entry, phase>>

\* lines 163-164
Evaporate ==
  /\ pc = "evaporate"
  /\ pher' = Evaporated(pher, params.rho)
  /\ phase' = [phase EXCEPT !.evaps = phase.evaps + 1]
  /\ pc' = "deposit"
  /\ UNCHANGED <<cities, modelVars, loopVars, params, loc, called, entry>>

\* lines 167-175: one pass of the deposit loop
Deposit ==
  /\ pc = "deposit" /\ loc.a < Len(loc.tours)
  /\ LET t == loc.tours[loc.a + 1]
         D == loc.tourD[loc.a + 1]
         delta == Recip(D)
     IN  /\ pher' = DepositFrom(pher, t, 1, delta)
         /\ IF Improves(D, bestDist)
              THEN bestDist' = D /\ bestTour' = t
              ELSE UNCHANGED <<bestDist, bestTour>>
  /\ loc' = [loc EXCEPT !.a = loc.a + 1]
  /\ phase' = [phase EXCEPT !.deps = phase.deps + 1]
  /\ UNCHANGED <<cities, iter, loopVars, pc, params, called, entry>>

\* lines 177-180: iter++ and return to animate
EndIteration ==
  /\ pc = "deposit" /\ loc.a >= Len(loc.tours)
  /\ iter' = iter + 1
  /\ loc' = NoLoc
  /\ pc' = "raf"
  /\ UNCHANGED <<cities, pher, bestDist, bestTour, loopVars, params, called, entry, phase>>

\* drawTour(bestTour), lines 234-245, reads cities[tour[i]].x for every entry of the
\* tour: it throws a TypeError when an entry is no index of cities
DrawTourThrows == bestTour # <<>> /\ \E i \in 1..Len(bestTour) : bestTour[i] > n

\* the rest of the animate callback: redrawAll at the end of runIteration (line 179)
\* when it was called, then lines 259-260. Both draw the best tour, so an exception
\* of drawTour ends the callback before requestAnimationFrame is reached.
RequestFrame ==
  /\ pc = "raf"
  /\ IF DrawTourThrows
       THEN UNCHANGED <<animId, pending>>
       ELSE /\ animId' = FreshId
            /\ pending' = pending \cup {FreshId}
  /\ pc' = "idle"
  /\ params' = NoParams /\ called' = FALSE /\ entry' = NoEntry /\ phase' = NoPhase
  /\ UNCHANGED <<cities, pher, modelVars, running, loc>>

Next ==
  \/ \E p \in Points : CanvasClick(p)
  \/ StartClick
  \/ PauseClick
  \/ ResetClick
  \/ ResetRandomize
  \/ RandomClick
  \/ \E f \in pending, due \in BOOLEAN : Animate(f, due)
  \/ AntStart
  \/ AntStep
  \/ AntClose
  \/ AntsDone
  \/ Evaporate
  \/ Deposit
  \/ EndIteration
  \/ RequestFrame

Spec == Init /\ [][Next]_vars

(* ------------------------------- claims -------------------------------- *)
\* the phases of runIteration
Iterating == pc \in {"ants", "walk", "evaporate", "deposit"}

\* runIteration has returned to the animate callback that called it
Returned == pc = "raf" /\ called

\* C1: every tour runIteration constructs has length n+1, ends where it starts and
\* holds each of the n city indices exactly once among its first n entries; the
\* tour under construction never repeats a city.
TourValidity ==
  /\ \A i \in 1..Len(loc.tours) :
       LET t == loc.tours[i]
       IN  /\ Len(t) = n + 1
           /\ t[1] = t[n + 1]
           /\ {t[j] : j \in 1..n} = 1..n
  /\ Cardinality({loc.tour[j] : j \in 1..Len(loc.tour)}) = Len(loc.tour)
  /\ Len(loc.tour) <= n

\* a tour of three cities that does not visit them in index order has been stored
TourValidityWitness ==
  /\ n = 3
  /\ Len(loc.tours) >= 1
  /\ loc.tours[1] = <<2, 1, 3, 2>>

\* C2: every change of the city list leaves the store uniform for the new cities
\* and the best record cleared (best tour absent, best length Infinity).
CityChangeClearsBest ==
  [][cities' # cities =>
       /\ pher' = initPheromones(Len(cities'))
       /\ bestTour' = <<>>
       /\ bestDist' = Infinity]_vars

\* C3: a runIteration call with ants = 0 on at least 2 cities leaves every
\* pheromone level and the best record as they were at the call.
ZeroAntsNoMutation ==
  (Returned /\ n >= 2 /\ params.ants = 0) =>
    /\ pher = entry.pher
    /\ bestDist = entry.bestDist
    /\ bestTour = entry.bestTour

\* C4: except in a resetModel step, the best length never increases, and the best
\* record changes only to a tour strictly shorter than the current best length.
BestNeverIncreases ==
  [][\/ pc = "idle" /\ pc' = "reset"
     \/ bestDist' = bestDist /\ bestTour' = bestTour
     \/ bestDist' < bestDist]_vars

\* a deposit pass has met a tour as long as the best one, and the earlier best
\* tour, a different one, was kept
BestNeverIncreasesWitness ==
  /\ pc = "deposit" /\ loc.a = 1
  /\ entry.bestTour # <<>>
  /\ loc.tourD[1] = entry.bestDist
  /\ loc.tours[1] # entry.bestTour
  /\ bestTour = entry.bestTour

ResetModelRestoresInitial ==
  /\ [](pc = "reset" =>
          /\ iter = 0 /\ bestDist = Infinity /\ bestTour = <<>>
          /\ pher = EmptyPher
          /\ ~running)
  /\ [](Iterating => running)
  /\ [][(~running /\ running') =>
          /\ pc = "idle" /\ pc' = "idle"
          /\ animId' \in pending' \ pending]_vars

\* resetModel has run while two animate callbacks were scheduled: it cancelled
\* the one animId names, and the other is still pending
ResetModelWitness ==
  /\ pc = "reset"
  /\ pending # {}

BestTourFitsCities ==
  bestTour # <<>> =>
    /\ Len(bestTour) = n + 1
    /\ \A i \in 1..Len(bestTour) : bestTour[i] \in 1..n

\* C10: at most one animate callback is pending at any time.
SingleAnimationLoop == Cardinality(pending) <= 1

====
